---- MODULE Spec2Model ----
(***************************************************************************)
(* Resource Catalog Service: resources, ratings and feedback, and the      *)
(* enriched views computed from them.                                      *)
(*                                                                         *)
(* Two routers are modelled.  The document-store router                    *)
(* (src/unnamed/part_003 with src/helpers/enrich_resource.js,              *)
(* src/models/*.js and src/utils/mongo.js) is specification Spec.  The     *)
(* router of src/routes/resources.js, whose write handlers work on the     *)
(* JSON files through src/helpers/data_manager.js, is specification        *)
(* SpecFile.  SpecFault, SpecRace, SpecFileFault and SpecFileRace run the  *)
(* handlers one awaited call at a time (failing store calls, two requests  *)
(* in flight); SpecEdit and SpecFileIds serve create and update requests   *)
(* only; SpecStored reads pre-existing data; SpecBoot is the start-up      *)
(* code of app.js with connectDB.                                          *)
(*                                                                         *)
(* Text values (title, type, feedbackText, ...) are sequences of           *)
(* one-character strings so that trim() is computed.  ObjectIds are the    *)
(* naturals 1..MaxOid inside the store and the strings HexOf[n] on the     *)
(* wire.  Averages are exact fractions [n, d].                             *)
(***************************************************************************)
EXTENDS Integers, Sequences, FiniteSets, TLC

\* ------------------------------------------------------------------ bounds
\* Number of identifiers (ObjectIds / uuids) the generators hand out.
MaxOid == 3
\* Largest reading of the wall clock (new Date()).
MaxClock == 1

\* ------------------------------------------------------- generic JS helpers
\* { ...a, ...b }
Spread(a, b) ==
  [k \in (DOMAIN a) \cup (DOMAIN b) |-> IF k \in DOMAIN b THEN b[k] ELSE a[k]]

\* const { k1, k2, ...rest } = obj   (the rest part)
Rest(obj, keys) == [k \in (DOMAIN obj) \ keys |-> obj[k]]

\* the object restricted to a set of keys
Pick(obj, keys) == [k \in (DOMAIN obj) \cap keys |-> obj[k]]

Has(obj, k) == k \in DOMAIN obj

EmptyObject == [k \in {} |-> 0]

IsSpace(c) == c = " "

\* String.prototype.trim on a sequence of characters
RECURSIVE TrimLeft(_)
TrimLeft(s) ==
  IF s # <<>> /\ IsSpace(Head(s)) THEN TrimLeft(Tail(s)) ELSE s

RECURSIVE TrimRight(_)
TrimRight(s) ==
  IF s # <<>> /\ IsSpace(s[Len(s)]) THEN TrimRight(SubSeq(s, 1, Len(s) - 1)) ELSE s

Trim(s) == TrimRight(TrimLeft(s))

\* !value for an optional text field of a request body
FalsyText(obj, k) == ~Has(obj, k) \/ obj[k] = <<>>

\* ------------------------------------------------------------- identifiers
\* The 24-hex-digit strings of the ObjectIds 1, 2, ... (wire form).
HexOf == <<"a1", "a2", "a3", "a4", "a5", "a6", "a7", "a8">>
\* A path parameter that is no ObjectId string.
Malformed == "zz"

Oids == 1..MaxOid
PathIds == {HexOf[n] : n \in Oids} \cup {Malformed}

\* Types.ObjectId.isValid(id)
ObjectIdIsValid(s) == \E n \in 1..Len(HexOf) : HexOf[n] = s

\* ------------------------------------------------------------ JS numbers
Num(n, d) == [kind |-> "number", n |-> n, d |-> d]
Null == [kind |-> "null"]
Undefined == [kind |-> "undefined"]
Str(s) == [kind |-> "string", s |-> s]
Zero == Num(0, 1)

IsNumber(v) == v.kind = "number"
\* a ?? b
Coalesce(a, b) == IF a.kind \in {"null", "undefined"} THEN b ELSE a
\* numeric equality of two JS values that are numbers
NumEq(a, b) == IsNumber(a) /\ IsNumber(b) /\ a.n * b.d = b.n * a.d

\* --------------------------------------------- aggregation ($group / $avg)
\* An aggregation expression: "$field" is <<"$", "field">> (a field path),
\* any other string is <<"text">> (a string literal).
FieldPath(f) == <<"$", f>>
Literal(t) == <<t>>

\* Fields of the stored documents that hold numbers.
NumericPaths == {"ratingValue"}

\* The value of an aggregation expression on one document.
EvalExpr(expr, doc) ==
  IF Head(expr) = "$"
    THEN IF ~Has(doc, expr[2]) THEN Null
         ELSE IF expr[2] \in NumericPaths THEN Num(doc[expr[2]], 1)
         ELSE Str(expr[2])
    ELSE Str(expr[1])

RECURSIVE SumNumeric(_, _)
SumNumeric(docs, expr) ==
  IF docs = {} THEN 0
  ELSE LET d == CHOOSE x \in docs : TRUE
           v == EvalExpr(expr, d)
       IN (IF IsNumber(v) THEN v.n ELSE 0) + SumNumeric(docs \ {d}, expr)

\* { $avg: expr } over the documents of one group: non-numeric values are
\* ignored, and the result is null when no value is numeric.
AvgAccumulator(docs, expr) ==
  LET numeric == {d \in docs : IsNumber(EvalExpr(expr, d))}
  IN IF numeric = {} THEN Null
     ELSE Num(SumNumeric(numeric, expr), Cardinality(numeric))

\* Number.prototype.toFixed(2): the decimal string with two fraction digits
\* nearest to the value (the larger one on a tie), kept as its hundredths.
ToFixed2(v) ==
  [kind |-> "string", hundredths |-> (200 * v.n + v.d) \div (2 * v.d)]

\* Number(x) for a toFixed string or a number
ToNumber(x) ==
  IF x.kind = "string" THEN Num(x.hundredths, 100) ELSE x

\* ------------------------------------------------------------ the schemas
ResourceSchemaPaths ==
  {"title", "type", "description", "authorId", "createdAt", "updatedAt"}

\* Mongoose strict mode: paths that are not in the schema are dropped.
CastResource(obj) == Pick(obj, ResourceSchemaPaths \cup {"_id"})

RatingMin == 1
RatingMax == 5

\* RatingSchema validators (required, min, max)
RatingSchemaValid(doc) ==
  /\ Has(doc, "resourceId")
  /\ Has(doc, "ratingValue")
  /\ doc.ratingValue >= RatingMin
  /\ doc.ratingValue <= RatingMax

\* --------------------------------------------------------- utils/mongo.js
\* toObjectId: the ObjectId of a well-formed string; throws otherwise.
ToObjectIdThrows(s) == ~ObjectIdIsValid(s)
toObjectId(s) == CHOOSE n \in 1..Len(HexOf) : HexOf[n] = s

\* toClient: _id and __v removed, id: String(_id) added.
toClient(doc) ==
  Spread([id |-> HexOf[doc._id]], Rest(doc, {"_id", "__v"}))

\* ------------------------------------------------------ middleware/validation.js
\* TRUE when the middleware calls next(), FALSE when it answers 400.
validateResource(body) ==
  ~(\/ FalsyText(body, "title") \/ Trim(body.title) = <<>>
    \/ FalsyText(body, "type") \/ Trim(body.type) = <<>>)

\* validateRating without the upper limit.
validateRatingNoUpper(body) ==
  ~(\/ ~Has(body, "ratingValue")
    \/ body.ratingValue.kind # "number"
    \/ body.ratingValue.n < 1 * body.ratingValue.d)

validateRating(body) ==
  ~(\/ ~Has(body, "ratingValue")
    \/ body.ratingValue.kind # "number"
    \/ body.ratingValue.n < 1 * body.ratingValue.d
    \/ body.ratingValue.n > 5 * body.ratingValue.d)

validateFeedback(body) ==
  ~(FalsyText(body, "feedbackText") \/ Trim(body.feedbackText) = <<>>)

\* ------------------------------------------------- helpers/enrich_resource.js
\* The $avg expression of the detail view's pipeline.
DetailAvgExpr == Literal("ratingValue")

\* FindFeedbackOf without its filter.
FindFeedbackAll(Feedback, id) == Feedback

\* Feedback.find({ resourceId: _id })
FindFeedbackOf(Feedback, id) == {f \in Feedback : f.resourceId = id}

\* Rating.aggregate([{ $match: { resourceId } }, { $group: { avg: { $avg } } }])
\* destructured as [avgDoc]: undefined when nothing matches.
DetailAvgDoc(Rating, id) ==
  LET matched == {r \in Rating : r.resourceId = id}
  IN IF matched = {} THEN Undefined
     ELSE [kind |-> "object", avg |-> AvgAccumulator(matched, DetailAvgExpr)]

buildEnrichedResource(resource, Rating, Feedback) ==
  LET id == resource._id
      avgDoc == DetailAvgDoc(Rating, id)
      avgRating == Coalesce(IF avgDoc.kind = "object" THEN avgDoc.avg ELSE Undefined,
                            Zero)
      fb == FindFeedbackOf(Feedback, id)
  IN Spread(toClient(resource),
            [averageRating |-> avgRating,
             feedback |-> {toClient(f) : f \in fb}])

\* ------------------------------------------------------- list view (GET /)
ListAvgExpr == FieldPath("ratingValue")

\* Rating.aggregate([{ $group: { _id: "$resourceId", avg: { $avg } } }])
RatingAgg(Rating) ==
  {[_id |-> rid,
    avg |-> AvgAccumulator({r \in Rating : r.resourceId = rid}, ListAvgExpr)]
     : rid \in {r.resourceId : r \in Rating}}

\* avgMap[String(res._id)] = Number(res.avg?.toFixed(2) ?? 0)
AvgMapEntry(g) ==
  ToNumber(Coalesce(IF g.avg.kind = "number" THEN ToFixed2(g.avg) ELSE Undefined,
                    Zero))

\* ListAverage without the "?? 0" default for a resource that has no group.
ListAverageNoDefault(Rating, id) ==
  LET groups == {g \in RatingAgg(Rating) : HexOf[g._id] = HexOf[id]}
  IN IF groups = {} THEN Undefined ELSE AvgMapEntry(CHOOSE g \in groups : TRUE)

\* avgMap[id] ?? 0
ListAverage(Rating, id) ==
  LET groups == {g \in RatingAgg(Rating) : HexOf[g._id] = HexOf[id]}
  IN Coalesce(IF groups = {} THEN Undefined
              ELSE AvgMapEntry(CHOOSE g \in groups : TRUE),
              Zero)

enrichSummary(resource_doc, Rating) ==
  Spread(toClient(resource_doc), [averageRating |-> ListAverage(Rating, resource_doc._id)])

\* ---------------------------------------------------------------- state
VARIABLES
  resources,      \* collection "resources" of the document store
  ratings,        \* collection "ratings"
  feedback,       \* collection "feedback"
  resourcesFile,  \* data/resources.json (a JSON array)
  ratingsFile,    \* data/ratings.json
  feedbackFile,   \* data/feedback.json
  nextOid,        \* the next identifier the generator hands out
  now,            \* the wall clock
  last,           \* the last request and the response it was given
  request,        \* the request whose handler is waiting for a store call
  parked,         \* another request whose handler waits while that one runs
  boot            \* the position of the start-up code (app.js, connectDB)

vars ==
  <<resources, ratings, feedback, resourcesFile, ratingsFile, feedbackFile,
    nextOid, now, last, request, parked, boot>>

mongoVars == <<resources, ratings, feedback>>
fileVars == <<resourcesFile, ratingsFile, feedbackFile>>

\* ------------------------------------------------------- request inputs
ResourceBodies ==
  { [title |-> <<"b">>, type |-> <<"v">>, authorId |-> "u1", feedback |-> <<"x">>,
     url |-> "x"],
    [title |-> <<" ">>, type |-> <<"v">>],
    [type |-> <<"v">>] }

UpdateBodies ==
  { [description |-> <<"n">>, feedback |-> <<"x">>],
    EmptyObject }

RatingBodies ==
  {[ratingValue |-> Num(v, 1)] : v \in {0, 2, 5, 6}}
    \cup { [ratingValue |-> Str("abc")] }

FeedbackBodies ==
  { [feedbackText |-> <<" ", "h", " ">>, userId |-> "u1"],
    [feedbackText |-> <<" ">>] }

\* req.query of GET /
Queries ==
  { EmptyObject, [type |-> <<"w">>] }

NoId == ""

\* ------------------------------------------------------------ responses
\* No response is outstanding: the previous one has been delivered.
Idle ==
  [op |-> "none", id |-> NoId, fid |-> NoId, body |-> EmptyObject,
   status |-> 0, out |-> EmptyObject]

\* No handler is waiting for the store.
NoRequest ==
  [op |-> "none", id |-> NoId, fid |-> NoId, body |-> EmptyObject,
   stage |-> "none", pc |-> 0, sent |-> 0, doc |-> EmptyObject]

\* The start-up code has connected at its first attempt and the server
\* listens.
Serving ==
  [pc |-> "listening", i |-> 1, attempts |-> 1, connected |-> TRUE,
   exitCode |-> 0, by |-> "none"]

\* A handler that runs from the request to its response in one step.
Respond(op, id, fid, body, status, out) ==
  /\ boot.pc = "listening"
  /\ last = Idle
  /\ request = NoRequest
  /\ last' = [op |-> op, id |-> id, fid |-> fid, body |-> body,
           status |-> status, out |-> out]
  /\ request' = request
  /\ parked' = parked
  /\ boot' = boot

\* helpers/metrics.js (middleware/error-handler.js): errorHandler
errorHandler(message) ==
  [error |-> "Interner Serverfehler", message |-> message]

InvalidIdMessage == "Ungueltige ObjectId"

NotFound == [error |-> "nicht gefunden"]
NoContent == EmptyObject

\* userId ? String(userId) : 'anonymous'
UserIdOf(body) ==
  IF Has(body, "userId") /\ body.userId # "" THEN body.userId ELSE "anonymous"

\* Model.findById(_id)
FindById(coll, id) == {d \in coll : d._id = id}

Init ==
  /\ resources = {}
  /\ ratings = {}
  /\ feedback = {}
  /\ resourcesFile = <<>>
  /\ ratingsFile = <<>>
  /\ feedbackFile = <<>>
  /\ nextOid = 1
  /\ now = 0
  /\ last = Idle
  /\ request = NoRequest
  /\ parked = NoRequest
  /\ boot = Serving

\* The wall clock advances between requests.
Tick ==
  /\ last = Idle
  /\ now < MaxClock
  /\ now' = now + 1
  /\ UNCHANGED <<mongoVars, fileVars, nextOid, last, request, parked, boot>>

\* The client takes the response; requests are answered one at a time.
Deliver ==
  /\ last # Idle
  /\ request.stage # "pending"
  /\ last' = Idle
  /\ request' = NoRequest
  /\ UNCHANGED <<mongoVars, fileVars, nextOid, now, parked, boot>>

\* ---------------------------------------- document-store router (part_003)
\* GET / : req.query is not read; find() has no filter.
GetResources(query) ==
  /\ Respond("GetResources", NoId, NoId, query, 200,
             {enrichSummary(r, ratings) : r \in resources})
  /\ UNCHANGED <<mongoVars, fileVars, nextOid, now>>

\* GET /:id
GetResource(id) ==
  /\ IF ToObjectIdThrows(id)
       THEN Respond("GetResource", id, NoId, EmptyObject, 500,
                    errorHandler(InvalidIdMessage))
       ELSE LET found == FindById(resources, toObjectId(id))
            IN IF found = {}
                 THEN Respond("GetResource", id, NoId, EmptyObject, 404, NotFound)
                 ELSE Respond("GetResource", id, NoId, EmptyObject, 200,
                              buildEnrichedResource(CHOOSE r \in found : TRUE,
                                                    ratings, feedback))
  /\ UNCHANGED <<mongoVars, fileVars, nextOid, now>>

\* POST /
PostResource(body) ==
  IF ~validateResource(body)
    THEN /\ Respond("PostResource", NoId, NoId, body, 400, [error |-> "validation"])
         /\ UNCHANGED <<mongoVars, fileVars, nextOid, now>>
    ELSE /\ nextOid <= MaxOid
         /\ LET newResource == Spread(body, [createdAt |-> now])
                created == Spread(CastResource(newResource), [_id |-> nextOid])
            IN /\ resources' = resources \cup {created}
               /\ Respond("PostResource", NoId, NoId, body, 201, toClient(created))
         /\ nextOid' = nextOid + 1
         /\ UNCHANGED <<ratings, feedback, fileVars, now>>

\* SetFields that replaces the document by the update.
SetFieldsReplace(old, update) == Spread([_id |-> old._id], update)

\* findByIdAndUpdate(_id, update): an update without operators is a $set of
\* its fields; the other fields of the document stay.
SetFields(old, update) == Spread(old, update)

\* PUT /:id
PutResource(id, body) ==
  IF ToObjectIdThrows(id)
    THEN /\ Respond("PutResource", id, NoId, body, 500, errorHandler(InvalidIdMessage))
         /\ UNCHANGED <<mongoVars, fileVars, nextOid, now>>
    ELSE IF DOMAIN body = {}
    THEN /\ Respond("PutResource", id, NoId, body, 400, [error |-> "validation"])
         /\ UNCHANGED <<mongoVars, fileVars, nextOid, now>>
    ELSE LET found == FindById(resources, toObjectId(id))
         IN IF found = {}
              THEN /\ Respond("PutResource", id, NoId, body, 404, NotFound)
                   /\ UNCHANGED <<mongoVars, fileVars, nextOid, now>>
              ELSE LET old == CHOOSE r \in found : TRUE
                       update == CastResource(Spread(body, [updatedAt |-> now]))
                       updated == SetFields(old, update)
                   IN /\ resources' = (resources \ {old}) \cup {updated}
                      /\ Respond("PutResource", id, NoId, body, 200,
                                 buildEnrichedResource(updated, ratings, feedback))
                      /\ UNCHANGED <<ratings, feedback, fileVars, nextOid, now>>

\* DELETE /:id
DeleteResource(id) ==
  IF ToObjectIdThrows(id)
    THEN /\ Respond("DeleteResource", id, NoId, EmptyObject, 500,
                    errorHandler(InvalidIdMessage))
         /\ UNCHANGED <<mongoVars, fileVars, nextOid, now>>
    ELSE LET oid == toObjectId(id)
             deleted == FindById(resources, oid)
         IN IF deleted = {}
              THEN /\ Respond("DeleteResource", id, NoId, EmptyObject, 404, NotFound)
                   /\ UNCHANGED <<mongoVars, fileVars, nextOid, now>>
              ELSE /\ resources' = resources \ deleted
                   /\ ratings' = {r \in ratings : r.resourceId # oid}
                   /\ feedback' = {f \in feedback : f.resourceId # oid}
                   /\ Respond("DeleteResource", id, NoId, EmptyObject, 204, NoContent)
                   /\ UNCHANGED <<fileVars, nextOid, now>>

\* RatingCreate that keeps one rating per resource and user.
RatingCreateUpsert(Rating, doc) ==
  {r \in Rating : r.resourceId # doc.resourceId \/ r.userId # doc.userId}
    \cup {doc}

\* Rating.create(doc): the document is inserted, nothing else is touched.
RatingCreate(Rating, doc) == Rating \cup {doc}

\* POST /:resourceId/ratings
PostRating(id, body) ==
  IF ~validateRating(body)
    THEN /\ Respond("PostRating", id, NoId, body, 400, [error |-> "validation"])
         /\ UNCHANGED <<mongoVars, fileVars, nextOid, now>>
    ELSE IF ToObjectIdThrows(id)
    THEN /\ Respond("PostRating", id, NoId, body, 500, errorHandler(InvalidIdMessage))
         /\ UNCHANGED <<mongoVars, fileVars, nextOid, now>>
    ELSE LET oid == toObjectId(id)
             found == FindById(resources, oid)
         IN IF found = {}
              THEN /\ Respond("PostRating", id, NoId, body, 404, NotFound)
                   /\ UNCHANGED <<mongoVars, fileVars, nextOid, now>>
              ELSE LET resource == CHOOSE r \in found : TRUE
                       newRating == [resourceId |-> oid,
                                     ratingValue |-> body.ratingValue.n,
                                     userId |-> UserIdOf(body),
                                     timestamp |-> now]
                   IN IF ~RatingSchemaValid(newRating)
                        THEN /\ Respond("PostRating", id, NoId, body, 500,
                                        errorHandler("Rating validation failed"))
                             /\ UNCHANGED <<mongoVars, fileVars, nextOid, now>>
                        ELSE /\ nextOid <= MaxOid
                             /\ ratings' = RatingCreate(ratings,
                                                       Spread(newRating, [_id |-> nextOid]))
                             /\ nextOid' = nextOid + 1
                             /\ Respond("PostRating", id, NoId, body, 201,
                                        buildEnrichedResource(resource, ratings', feedback))
                             /\ UNCHANGED <<resources, feedback, fileVars, now>>

\* POST /:resourceId/feedback
PostFeedback(id, body) ==
  IF ~validateFeedback(body)
    THEN /\ Respond("PostFeedback", id, NoId, body, 400, [error |-> "validation"])
         /\ UNCHANGED <<mongoVars, fileVars, nextOid, now>>
    ELSE IF ToObjectIdThrows(id)
    THEN /\ Respond("PostFeedback", id, NoId, body, 500, errorHandler(InvalidIdMessage))
         /\ UNCHANGED <<mongoVars, fileVars, nextOid, now>>
    ELSE LET oid == toObjectId(id)
             found == FindById(resources, oid)
         IN IF found = {}
              THEN /\ Respond("PostFeedback", id, NoId, body, 404, NotFound)
                   /\ UNCHANGED <<mongoVars, fileVars, nextOid, now>>
              ELSE LET resource == CHOOSE r \in found : TRUE
                       newFeedback == [resourceId |-> oid,
                                       feedbackText |-> Trim(body.feedbackText),
                                       userId |-> UserIdOf(body),
                                       timestamp |-> now]
                   IN /\ nextOid <= MaxOid
                      /\ feedback' = feedback \cup {Spread(newFeedback, [_id |-> nextOid])}
                      /\ nextOid' = nextOid + 1
                      /\ Respond("PostFeedback", id, NoId, body, 201,
                                 buildEnrichedResource(resource, ratings, feedback'))
                      /\ UNCHANGED <<resources, ratings, fileVars, now>>

\* MatchFeedback that matches on the feedback id alone.
MatchFeedbackIdOnly(f, fid, rid) == f._id = fid

\* The filter { _id: feedbackId, resourceId } of findOneAndUpdate / deleteOne
MatchFeedback(f, fid, rid) == f._id = fid /\ f.resourceId = rid

\* PUT /:resourceId/feedback/:feedbackId
PutFeedback(id, fid, body) ==
  IF ~validateFeedback(body)
    THEN /\ Respond("PutFeedback", id, fid, body, 400, [error |-> "validation"])
         /\ UNCHANGED <<mongoVars, fileVars, nextOid, now>>
    ELSE IF ToObjectIdThrows(id) \/ ToObjectIdThrows(fid)
    THEN /\ Respond("PutFeedback", id, fid, body, 500, errorHandler(InvalidIdMessage))
         /\ UNCHANGED <<mongoVars, fileVars, nextOid, now>>
    ELSE LET matched == {f \in feedback : MatchFeedback(f, toObjectId(fid), toObjectId(id))}
         IN IF matched = {}
              THEN /\ Respond("PutFeedback", id, fid, body, 404, NotFound)
                   /\ UNCHANGED <<mongoVars, fileVars, nextOid, now>>
              ELSE LET old == CHOOSE f \in matched : TRUE
                       updated_feedback ==
                         Spread(old, [feedbackText |-> body.feedbackText,
                                      timestamp |-> now])
                   IN /\ feedback' = (feedback \ {old}) \cup {updated_feedback}
                      /\ Respond("PutFeedback", id, fid, body, 200, updated_feedback)
                      /\ UNCHANGED <<resources, ratings, fileVars, nextOid, now>>

\* The result of Model.deleteOne: an object, whatever the count.
DeleteOneResult(n) == [kind |-> "object", acknowledged |-> TRUE, deletedCount |-> n]

\* !value
Not(v) == v.kind \in {"null", "undefined"}

\* DELETE /:resourceId/feedback/:feedbackId
DeleteFeedback(id, fid) ==
  IF ToObjectIdThrows(id) \/ ToObjectIdThrows(fid)
    THEN /\ Respond("DeleteFeedback", id, fid, EmptyObject, 500,
                    errorHandler(InvalidIdMessage))
         /\ UNCHANGED <<mongoVars, fileVars, nextOid, now>>
    ELSE LET matched == {f \in feedback : MatchFeedback(f, toObjectId(fid), toObjectId(id))}
             deleted_feedback == DeleteOneResult(Cardinality(matched))
         IN /\ feedback' = feedback \ matched
            /\ IF Not(deleted_feedback)
                 THEN Respond("DeleteFeedback", id, fid, EmptyObject, 404, NotFound)
                 ELSE Respond("DeleteFeedback", id, fid, EmptyObject, 204, NoContent)
            /\ UNCHANGED <<resources, ratings, fileVars, nextOid, now>>

Next ==
  \/ Tick
  \/ Deliver
  \/ \E query \in Queries : GetResources(query)
  \/ \E id \in PathIds : GetResource(id)
  \/ \E body \in ResourceBodies : PostResource(body)
  \/ \E id \in PathIds, body \in UpdateBodies : PutResource(id, body)
  \/ \E id \in PathIds : DeleteResource(id)
  \/ \E id \in PathIds, body \in RatingBodies : PostRating(id, body)
  \/ \E id \in PathIds, body \in FeedbackBodies : PostFeedback(id, body)
  \/ \E id \in PathIds, fid \in PathIds, body \in FeedbackBodies : PutFeedback(id, fid, body)
  \/ \E id \in PathIds, fid \in PathIds : DeleteFeedback(id, fid)

Spec == Init /\ [][Next]_vars

\* ------------------------------------- file-backed router (routes/resources.js)
\* uuidv4(): the identifiers of the file-backed records (no ObjectId strings).
UuidOf == <<"u1", "u2", "u3", "u4", "u5", "u6", "u7", "u8">>
FilePathIds == {UuidOf[n] : n \in Oids} \cup {Malformed}

\* helpers/data_manager.js: the parsed content of a JSON file
readData(file) == file

\* Array.prototype.filter
Filter(seq, Keep(_)) == SelectSeq(seq, Keep)

\* Array.prototype.findIndex (0 when nothing matches)
FindIndex(seq, Test(_)) ==
  IF \E i \in 1..Len(seq) : Test(seq[i])
    THEN CHOOSE i \in 1..Len(seq) : Test(seq[i]) /\ \A j \in 1..(i - 1) : ~Test(seq[j])
    ELSE 0

RECURSIVE SumRatingValues(_)
SumRatingValues(seq) ==
  IF seq = <<>> THEN 0 ELSE Head(seq).ratingValue + SumRatingValues(Tail(seq))

\* helpers/metrics.js: average of the rating values of the given ratings
average(resourceRatings) ==
  IF Len(resourceRatings) = 0 THEN Zero
  ELSE Num(SumRatingValues(resourceRatings), Len(resourceRatings))

\* buildEnrichedResource(resource, ratings, feedback) of src/unnamed/part_000:
\* the three-argument helper the file-backed handlers' calls are written for.
buildEnrichedResourceFile(resource, rts, fbs) ==
  LET OfResource(x) == x.resourceId = resource.id
  IN Spread(resource,
            [averageRating |-> average(Filter(rts, OfResource)),
             feedback |-> Filter(fbs, OfResource)])

\* GET /:id of routes/resources.js (reads the document store)
FileRouterGetResource(id) ==
  /\ IF ToObjectIdThrows(id)
       THEN Respond("GetResource", id, NoId, EmptyObject, 500,
                    errorHandler(InvalidIdMessage))
       ELSE LET found == FindById(resources, toObjectId(id))
            IN IF found = {}
                 THEN Respond("GetResource", id, NoId, EmptyObject, 404, NotFound)
                 ELSE LET resource_doc == CHOOSE r \in found : TRUE
                          avgDoc == DetailAvgDoc(ratings, resource_doc._id)
                          avgRating ==
                            Coalesce(IF avgDoc.kind = "object" THEN avgDoc.avg
                                     ELSE Undefined, Zero)
                          fb == FindFeedbackOf(feedback, resource_doc._id)
                      IN Respond("GetResource", id, NoId, EmptyObject, 200,
                                 Spread(toClient(resource_doc),
                                        [averageRating |-> avgRating,
                                         feedback |-> {toClient(f) : f \in fb}]))
  /\ UNCHANGED <<mongoVars, fileVars, nextOid, now>>

\* POST /
FilePostResource(body) ==
  IF ~validateResource(body)
    THEN /\ Respond("PostResource", NoId, NoId, body, 400, [error |-> "validation"])
         /\ UNCHANGED <<mongoVars, fileVars, nextOid, now>>
    ELSE /\ nextOid <= MaxOid
         /\ LET newResource ==
                  Spread(Spread([id |-> UuidOf[nextOid]], body), [createdAt |-> now])
            IN /\ resourcesFile' = Append(readData(resourcesFile), newResource)
               /\ Respond("PostResource", NoId, NoId, body, 201, newResource)
         /\ nextOid' = nextOid + 1
         /\ UNCHANGED <<mongoVars, ratingsFile, feedbackFile, now>>

\* PUT /:id
FilePutResource(id, body) ==
  IF DOMAIN body = {}
    THEN /\ Respond("PutResource", id, NoId, body, 400, [error |-> "validation"])
         /\ UNCHANGED <<mongoVars, fileVars, nextOid, now>>
    ELSE LET rs == readData(resourcesFile)
             HasId(r) == r.id = id
             idx == FindIndex(rs, HasId)
         IN IF idx = 0
              THEN /\ Respond("PutResource", id, NoId, body, 404, NotFound)
                   /\ UNCHANGED <<mongoVars, fileVars, nextOid, now>>
              ELSE LET updated == Spread(Spread(rs[idx], body), [updatedAt |-> now])
                   IN /\ resourcesFile' = [rs EXCEPT ![idx] = updated]
                      /\ Respond("PutResource", id, NoId, body, 200,
                                 buildEnrichedResourceFile(updated, readData(ratingsFile),
                                                           readData(feedbackFile)))
                      /\ UNCHANGED <<mongoVars, ratingsFile, feedbackFile, nextOid, now>>

\* DELETE /:id
FileDeleteResource(id) ==
  LET rs == readData(resourcesFile)
      OtherId(r) == r.id # id
      kept == Filter(rs, OtherId)
  IN IF Len(kept) = Len(rs)
       THEN /\ Respond("DeleteResource", id, NoId, EmptyObject, 404, NotFound)
            /\ UNCHANGED <<mongoVars, fileVars, nextOid, now>>
       ELSE /\ resourcesFile' = kept
            /\ Respond("DeleteResource", id, NoId, EmptyObject, 204, NoContent)
            /\ UNCHANGED <<mongoVars, ratingsFile, feedbackFile, nextOid, now>>

\* POST /:resourceId/ratings
FilePostRating(id, body) ==
  IF ~validateRating(body)
    THEN /\ Respond("PostRating", id, NoId, body, 400, [error |-> "validation"])
         /\ UNCHANGED <<mongoVars, fileVars, nextOid, now>>
    ELSE LET rs == readData(resourcesFile)
             HasId(r) == r.id = id
             idx == FindIndex(rs, HasId)
         IN IF idx = 0
              THEN /\ Respond("PostRating", id, NoId, body, 404, NotFound)
                   /\ UNCHANGED <<mongoVars, fileVars, nextOid, now>>
              ELSE /\ nextOid <= MaxOid
                   /\ LET newRating == [id |-> UuidOf[nextOid],
                                        resourceId |-> id,
                                        ratingValue |-> body.ratingValue.n,
                                        userId |-> UserIdOf(body),
                                        timestamp |-> now]
                          rts == Append(readData(ratingsFile), newRating)
                      IN /\ ratingsFile' = rts
                         /\ Respond("PostRating", id, NoId, body, 201,
                                    buildEnrichedResourceFile(rs[idx], rts,
                                                              readData(feedbackFile)))
                   /\ nextOid' = nextOid + 1
                   /\ UNCHANGED <<mongoVars, resourcesFile, feedbackFile, now>>

\* POST /:resourceId/feedback
FilePostFeedback(id, body) ==
  IF ~validateFeedback(body)
    THEN /\ Respond("PostFeedback", id, NoId, body, 400, [error |-> "validation"])
         /\ UNCHANGED <<mongoVars, fileVars, nextOid, now>>
    ELSE LET rs == readData(resourcesFile)
             HasId(r) == r.id = id
             idx == FindIndex(rs, HasId)
         IN IF idx = 0
              THEN /\ Respond("PostFeedback", id, NoId, body, 404, NotFound)
                   /\ UNCHANGED <<mongoVars, fileVars, nextOid, now>>
              ELSE /\ nextOid <= MaxOid
                   /\ LET newFeedback == [id |-> UuidOf[nextOid],
                                          resourceId |-> id,
                                          feedbackText |-> Trim(body.feedbackText),
                                          userId |-> UserIdOf(body),
                                          timestamp |-> now]
                          fbs == Append(readData(feedbackFile), newFeedback)
                      IN /\ feedbackFile' = fbs
                         /\ Respond("PostFeedback", id, NoId, body, 201,
                                    buildEnrichedResourceFile(rs[idx],
                                                              readData(ratingsFile), fbs))
                   /\ nextOid' = nextOid + 1
                   /\ UNCHANGED <<mongoVars, resourcesFile, ratingsFile, now>>

\* PUT /:resourceId/feedback/:feedbackId
FilePutFeedback(id, fid, body) ==
  IF ~validateFeedback(body)
    THEN /\ Respond("PutFeedback", id, fid, body, 400, [error |-> "validation"])
         /\ UNCHANGED <<mongoVars, fileVars, nextOid, now>>
    ELSE LET fbs == readData(feedbackFile)
             Matches(f) == f.id = fid /\ f.resourceId = id
             idx == FindIndex(fbs, Matches)
         IN IF idx = 0
              THEN /\ Respond("PutFeedback", id, fid, body, 404, NotFound)
                   /\ UNCHANGED <<mongoVars, fileVars, nextOid, now>>
              ELSE LET updated == Spread(fbs[idx],
                                         [feedbackText |-> Trim(body.feedbackText),
                                          timestamp |-> now])
                   IN /\ feedbackFile' = [fbs EXCEPT ![idx] = updated]
                      /\ Respond("PutFeedback", id, fid, body, 200, updated)
                      /\ UNCHANGED <<mongoVars, resourcesFile, ratingsFile, nextOid, now>>

\* DELETE /:resourceId/feedback/:feedbackId
FileDeleteFeedback(id, fid) ==
  LET fbs == readData(feedbackFile)
      Other(f) == ~(f.id = fid /\ f.resourceId = id)
      kept == Filter(fbs, Other)
  IN IF Len(kept) = Len(fbs)
       THEN /\ Respond("DeleteFeedback", id, fid, EmptyObject, 404, NotFound)
            /\ UNCHANGED <<mongoVars, fileVars, nextOid, now>>
       ELSE /\ feedbackFile' = kept
            /\ Respond("DeleteFeedback", id, fid, EmptyObject, 204, NoContent)
            /\ UNCHANGED <<mongoVars, resourcesFile, ratingsFile, nextOid, now>>

NextFile ==
  \/ Tick
  \/ Deliver
  \/ \E query \in Queries : GetResources(query)
  \/ \E id \in FilePathIds : FileRouterGetResource(id)
  \/ \E body \in ResourceBodies : FilePostResource(body)
  \/ \E id \in FilePathIds, body \in UpdateBodies : FilePutResource(id, body)
  \/ \E id \in FilePathIds : FileDeleteResource(id)
  \/ \E id \in FilePathIds, body \in RatingBodies : FilePostRating(id, body)
  \/ \E id \in FilePathIds, body \in FeedbackBodies : FilePostFeedback(id, body)
  \/ \E id \in FilePathIds, fid \in FilePathIds, body \in FeedbackBodies :
       FilePutFeedback(id, fid, body)
  \/ \E id \in FilePathIds, fid \in FilePathIds : FileDeleteFeedback(id, fid)

SpecFile == Init /\ [][NextFile]_vars

\* ------------------------------------------- reads of an existing database
\* connectDB attaches the service to a database that already exists; find()
\* with lean() hands its documents to the handlers as they are stored, with
\* whatever fields they carry.
StoredShapes(oid) ==
  { [_id |-> oid, title |-> <<"b">>, type |-> <<"v">>],
    [_id |-> oid, title |-> <<"b">>, type |-> <<"v">>, feedback |-> <<"x">>] }

InitStored ==
  /\ \E present \in SUBSET Oids :
       \E shape \in [present -> UNION {StoredShapes(o) : o \in Oids}] :
         /\ \A o \in present : shape[o] \in StoredShapes(o)
         /\ resources = {shape[o] : o \in present}
  /\ ratings = {}
  /\ feedback = {}
  /\ resourcesFile = <<>>
  /\ ratingsFile = <<>>
  /\ feedbackFile = <<>>
  /\ nextOid = MaxOid + 1
  /\ now = 0
  /\ last = Idle
  /\ request = NoRequest
  /\ parked = NoRequest
  /\ boot = Serving

NextStored ==
  \/ Deliver
  \/ \E query \in Queries : GetResources(query)
  \/ \E id \in PathIds : GetResource(id)

SpecStored == InitStored /\ [][NextStored]_vars

\* ------------------------ the handlers of part_003, one store call at a time
\* Each handler runs synchronously up to its next awaited store call; the call
\* then resolves or rejects.  A rejection is caught by the handler's catch
\* block, which hands the error to next(), that is to errorHandler.
\* The message texts of rejected store calls.
ErrorTexts == {"ECONNRESET", "E11000"}

\* The awaited store calls of each handler, in the order of the code.
Calls(op) ==
  CASE op = "GetResources" -> <<"Resource.find", "Rating.aggregate">>
    [] op = "GetResource" ->
         <<"Resource.findById", "Rating.aggregate", "Feedback.find">>
    [] op = "PostResource" -> <<"Resource.create">>
    [] op = "PutResource" ->
         <<"Resource.findByIdAndUpdate", "Rating.aggregate", "Feedback.find">>
    [] op = "DeleteResource" -> <<"Resource.findByIdAndDelete", "deleteMany">>
    [] op = "PostRating" ->
         <<"Resource.findById", "Rating.create", "Rating.aggregate", "Feedback.find">>
    [] op = "PostFeedback" ->
         <<"Resource.findById", "Feedback.create", "Rating.aggregate", "Feedback.find">>
    [] op = "PutFeedback" -> <<"Feedback.findOneAndUpdate">>
    [] op = "DeleteFeedback" -> <<"Feedback.deleteOne">>

\* The requests the clients send.
FaultIds == {HexOf[n] : n \in 1..2} \cup {Malformed}

FaultRequests ==
  {<<"GetResources", NoId, NoId, EmptyObject>>}
  \cup {<<op, id, NoId, EmptyObject>> :
          op \in {"GetResource", "DeleteResource"}, id \in FaultIds}
  \cup {<<"PostResource", NoId, NoId, b>> : b \in ResourceBodies}
  \cup {<<"PutResource", id, NoId, b>> : id \in FaultIds, b \in UpdateBodies}
  \cup {<<"PostRating", id, NoId, [ratingValue |-> Num(v, 1)]>> :
          id \in FaultIds, v \in {2, 6}}
  \cup {<<"PostFeedback", id, NoId, b>> : id \in FaultIds, b \in FeedbackBodies}
  \cup {<<"PutFeedback", id, fid, b>> :
          id \in FaultIds, fid \in FaultIds, b \in FeedbackBodies}
  \cup {<<"DeleteFeedback", id, fid, EmptyObject>> : id \in FaultIds, fid \in FaultIds}

\* The validation middleware in front of the handler (TRUE: next() is called).
Middleware(op, body) ==
  CASE op = "PostResource" -> validateResource(body)
    [] op = "PostRating" -> validateRating(body)
    [] op \in {"PostFeedback", "PutFeedback"} -> validateFeedback(body)
    [] OTHER -> TRUE

\* The path parameters the handler converts with toObjectId.
ConvertThrows(op, id, fid) ==
  \/ op \notin {"GetResources", "PostResource"} /\ ToObjectIdThrows(id)
  \/ op \in {"PutFeedback", "DeleteFeedback"} /\ ToObjectIdThrows(fid)

\* res.status(status).json(out): the handler has sent a response.
Answer(r, status, out) ==
  /\ last' = [op |-> r.op, id |-> r.id, fid |-> r.fid, body |-> r.body,
           status |-> status, out |-> out]
  /\ request' = [r EXCEPT !.stage = "done", !.sent = @ + 1]
  /\ parked' = parked
  /\ boot' = boot

\* await: the handler waits for its next store call.
Await(r, doc) ==
  /\ request' = [r EXCEPT !.stage = "pending", !.pc = @ + 1, !.doc = doc]
  /\ last' = last
  /\ parked' = parked
  /\ boot' = boot

\* OnError with a catch block that only logs.
OnErrorSwallow(r, message) ==
  /\ request' = [r EXCEPT !.stage = "done"]
  /\ last' = last
  /\ parked' = parked
  /\ boot' = boot

\* catch (error) { console.error(...); next(error); } and then errorHandler
OnError(r, message) == Answer(r, 500, errorHandler(message))

\* The request arrives: middleware and the handler up to its first await.
Receive(op, id, fid, body) ==
  /\ boot.pc = "listening"
  /\ last = Idle
  /\ request = NoRequest
  /\ LET r == [op |-> op, id |-> id, fid |-> fid, body |-> body,
               stage |-> "pending", pc |-> 0, sent |-> 0, doc |-> EmptyObject]
     IN IF ~Middleware(op, body)
          THEN Answer(r, 400, [error |-> "validation"])
        ELSE IF ConvertThrows(op, id, fid)
          THEN OnError(r, InvalidIdMessage)
        ELSE IF op = "PutResource" /\ DOMAIN body = {}
          THEN Answer(r, 400, [error |-> "validation"])
        ELSE Await(r, EmptyObject)
  /\ UNCHANGED <<mongoVars, fileVars, nextOid, now>>

\* The awaited store call resolves and the handler runs on to its next
\* await or to its response.
Resolve ==
  /\ request.stage = "pending"
  /\ LET r == request
         call == Calls(r.op)[r.pc]
     IN \/ /\ call = "Resource.find"
           /\ Await(r, r.doc)
           /\ UNCHANGED <<mongoVars, nextOid>>
        \/ /\ call = "Rating.aggregate"
           /\ IF r.op = "GetResources"
                THEN Answer(r, 200, {enrichSummary(d, ratings) : d \in resources})
                ELSE Await(r, r.doc)
           /\ UNCHANGED <<mongoVars, nextOid>>
        \/ /\ call = "Feedback.find"
           /\ Answer(r, IF r.op \in {"PostRating", "PostFeedback"} THEN 201 ELSE 200,
                     buildEnrichedResource(r.doc, ratings, feedback))
           /\ UNCHANGED <<mongoVars, nextOid>>
        \/ /\ call = "Resource.findById"
           /\ LET found == FindById(resources, toObjectId(r.id))
              IN IF found = {} THEN Answer(r, 404, NotFound)
                 ELSE Await(r, CHOOSE d \in found : TRUE)
           /\ UNCHANGED <<mongoVars, nextOid>>
        \/ /\ call = "Resource.create"
           /\ nextOid <= MaxOid
           /\ LET newResource == Spread(r.body, [createdAt |-> now])
                  created == Spread(CastResource(newResource), [_id |-> nextOid])
              IN /\ resources' = resources \cup {created}
                 /\ Answer(r, 201, toClient(created))
           /\ nextOid' = nextOid + 1
           /\ UNCHANGED <<ratings, feedback>>
        \/ /\ call = "Resource.findByIdAndUpdate"
           /\ LET found == FindById(resources, toObjectId(r.id))
              IN IF found = {}
                   THEN Answer(r, 404, NotFound) /\ UNCHANGED resources
                   ELSE LET old == CHOOSE d \in found : TRUE
                            update == CastResource(Spread(r.body, [updatedAt |-> now]))
                            updated == SetFields(old, update)
                        IN /\ resources' = (resources \ {old}) \cup {updated}
                           /\ Await(r, updated)
           /\ UNCHANGED <<ratings, feedback, nextOid>>
        \/ /\ call = "Resource.findByIdAndDelete"
           /\ LET deleted == FindById(resources, toObjectId(r.id))
              IN IF deleted = {}
                   THEN Answer(r, 404, NotFound) /\ UNCHANGED resources
                   ELSE resources' = resources \ deleted /\ Await(r, r.doc)
           /\ UNCHANGED <<ratings, feedback, nextOid>>
        \/ /\ call = "deleteMany"
           /\ ratings' = {x \in ratings : x.resourceId # toObjectId(r.id)}
           /\ feedback' = {f \in feedback : f.resourceId # toObjectId(r.id)}
           /\ Answer(r, 204, NoContent)
           /\ UNCHANGED <<resources, nextOid>>
        \/ /\ call = "Rating.create"
           /\ LET newRating == [resourceId |-> toObjectId(r.id),
                                ratingValue |-> r.body.ratingValue.n,
                                userId |-> UserIdOf(r.body),
                                timestamp |-> now]
              IN IF ~RatingSchemaValid(newRating)
                   THEN /\ OnError(r, "Rating validation failed")
                        /\ UNCHANGED <<ratings, nextOid>>
                   ELSE /\ nextOid <= MaxOid
                        /\ ratings' = RatingCreate(ratings,
                                                  Spread(newRating, [_id |-> nextOid]))
                        /\ nextOid' = nextOid + 1
                        /\ Await(r, r.doc)
           /\ UNCHANGED <<resources, feedback>>
        \/ /\ call = "Feedback.create"
           /\ nextOid <= MaxOid
           /\ LET newFeedback == [resourceId |-> toObjectId(r.id),
                                  feedbackText |-> Trim(r.body.feedbackText),
                                  userId |-> UserIdOf(r.body),
                                  timestamp |-> now]
              IN feedback' = feedback \cup {Spread(newFeedback, [_id |-> nextOid])}
           /\ nextOid' = nextOid + 1
           /\ Await(r, r.doc)
           /\ UNCHANGED <<resources, ratings>>
        \/ /\ call = "Feedback.findOneAndUpdate"
           /\ LET matched == {f \in feedback :
                                MatchFeedback(f, toObjectId(r.fid), toObjectId(r.id))}
              IN IF matched = {}
                   THEN Answer(r, 404, NotFound) /\ UNCHANGED feedback
                   ELSE LET old == CHOOSE f \in matched : TRUE
                            updated_feedback ==
                              Spread(old, [feedbackText |-> r.body.feedbackText,
                                           timestamp |-> now])
                        IN /\ feedback' = (feedback \ {old}) \cup {updated_feedback}
                           /\ Answer(r, 200, updated_feedback)
           /\ UNCHANGED <<resources, ratings, nextOid>>
        \/ /\ call = "Feedback.deleteOne"
           /\ LET matched == {f \in feedback :
                                MatchFeedback(f, toObjectId(r.fid), toObjectId(r.id))}
                  deleted_feedback == DeleteOneResult(Cardinality(matched))
              IN /\ feedback' = feedback \ matched
                 /\ IF Not(deleted_feedback) THEN Answer(r, 404, NotFound)
                    ELSE Answer(r, 204, NoContent)
           /\ UNCHANGED <<resources, ratings, nextOid>>
  /\ UNCHANGED <<fileVars, now>>

\* The awaited store call rejects with an error text.  Of the two deleteMany
\* calls under Promise.all the one that did not reject may have taken effect.
Reject(message) ==
  /\ request.stage = "pending"
  /\ LET r == request
         call == Calls(r.op)[r.pc]
     IN /\ IF call = "deleteMany"
             THEN \E landed \in {"none", "ratings", "feedback"} :
                    /\ ratings' = IF landed = "ratings"
                                    THEN {x \in ratings : x.resourceId # toObjectId(r.id)}
                                    ELSE ratings
                    /\ feedback' = IF landed = "feedback"
                                     THEN {f \in feedback : f.resourceId # toObjectId(r.id)}
                                     ELSE feedback
             ELSE UNCHANGED <<ratings, feedback>>
        /\ OnError(r, message)
  /\ UNCHANGED <<resources, fileVars, nextOid, now>>

\* A pending store call settles one way or the other.
Settle == Resolve \/ \E message \in ErrorTexts : Reject(message)

NextFault ==
  \/ Deliver
  \/ \E q \in FaultRequests : Receive(q[1], q[2], q[3], q[4])
  \/ Resolve
  \/ \E message \in ErrorTexts : Reject(message)

SpecFault == Init /\ [][NextFault]_vars /\ WF_vars(Settle)

\* --------------------------- two requests of part_003 in flight at a time
\* The handlers are async functions on one event loop: while one waits for
\* its store call another request may arrive and run, and the store calls of
\* the two settle in either order.
\* The requests of the two clients.
RaceRequests ==
  { <<"PostResource", NoId, NoId, [title |-> <<"b">>, type |-> <<"v">>]>>,
    <<"PostRating", HexOf[1], NoId, [ratingValue |-> Num(2, 1)]>>,
    <<"PostFeedback", HexOf[1], NoId, [feedbackText |-> <<"h">>]>>,
    <<"DeleteResource", HexOf[1], NoId, EmptyObject>> }

\* The event loop turns to the other handler: the store call of the parked
\* request settles next, or a new request may arrive.
Switch ==
  /\ last = Idle
  /\ request.stage # "done"
  /\ request # NoRequest \/ parked # NoRequest
  /\ request' = parked
  /\ parked' = request
  /\ UNCHANGED <<mongoVars, fileVars, nextOid, now, last, boot>>

NextRace ==
  \/ Deliver
  \/ \E q \in RaceRequests : Receive(q[1], q[2], q[3], q[4])
  \/ Resolve
  \/ Switch

SpecRace == Init /\ [][NextRace]_vars

\* ---------- the create handlers of routes/resources.js, one await at a time
\* The awaited readData / writeData calls of each create handler, in the
\* order of the code.
FileCalls(op) ==
  CASE op = "PostResource" -> <<"read resources", "write resources">>
    [] op = "PostRating" ->
         <<"read resources", "read ratings", "read feedback", "write ratings">>
    [] op = "PostFeedback" ->
         <<"read resources", "read ratings", "read feedback", "write feedback">>

\* The requests the clients send.
FileCreateRequests ==
  { <<"PostResource", NoId, [title |-> <<"b">>, type |-> <<"v">>]>>,
    <<"PostRating", UuidOf[1], [ratingValue |-> Num(2, 1)]>>,
    <<"PostFeedback", UuidOf[1], [feedbackText |-> <<"h">>]>> }

\* The record the handler builds before its first await.
NewRecord(op, id, body) ==
  CASE op = "PostResource" ->
         Spread(Spread([id |-> UuidOf[nextOid]], body), [createdAt |-> now])
    [] op = "PostRating" ->
         [id |-> UuidOf[nextOid], resourceId |-> id,
          ratingValue |-> body.ratingValue.n, userId |-> UserIdOf(body),
          timestamp |-> now]
    [] op = "PostFeedback" ->
         [id |-> UuidOf[nextOid], resourceId |-> id,
          feedbackText |-> Trim(body.feedbackText), userId |-> UserIdOf(body),
          timestamp |-> now]

\* The request arrives: middleware, the new record, up to the first await.
FileReceive(op, id, body) ==
  /\ boot.pc = "listening"
  /\ last = Idle
  /\ request = NoRequest
  /\ LET r == [op |-> op, id |-> id, fid |-> NoId, body |-> body,
               stage |-> "pending", pc |-> 0, sent |-> 0, doc |-> EmptyObject]
     IN IF ~Middleware(op, body)
          THEN Answer(r, 400, [error |-> "validation"]) /\ UNCHANGED nextOid
          ELSE /\ nextOid <= MaxOid
               /\ nextOid' = nextOid + 1
               /\ Await(r, [new |-> NewRecord(op, id, body), failed |-> FALSE])
  /\ UNCHANGED <<mongoVars, fileVars, now>>

\* The file a readData call names.
FileOf(call) ==
  CASE call = "read resources" -> resourcesFile
    [] call = "read ratings" -> ratingsFile
    [] call = "read feedback" -> feedbackFile

\* An awaited readData settles and the handler runs on to its next await.
\* readData never rejects: when reading or parsing fails its catch block
\* returns the empty list.
FileReadStep(ok) ==
  /\ request.stage = "pending"
  /\ FileCalls(request.op)[request.pc] \in {"read resources", "read ratings", "read feedback"}
  /\ LET r == request
         call == FileCalls(r.op)[r.pc]
         content == IF ok THEN readData(FileOf(call)) ELSE <<>>
         doc == Spread(r.doc, [failed |-> r.doc.failed \/ ~ok])
         HasId(x) == x.id = r.id
         idx == FindIndex(content, HasId)
     IN CASE call = "read resources" /\ r.op = "PostResource" ->
               Await(r, Spread(doc, [resources |-> Append(content, doc.new)]))
          [] call = "read resources" /\ r.op # "PostResource" ->
               IF idx = 0 THEN Answer([r EXCEPT !.doc = doc], 404, NotFound)
               ELSE Await(r, Spread(doc, [resource |-> content[idx]]))
          [] call = "read ratings" ->
               Await(r, Spread(doc, [ratings |-> content]))
          [] call = "read feedback" /\ r.op = "PostRating" ->
               Await(r, Spread(doc, [feedback |-> content,
                                     ratings |-> Append(doc.ratings, doc.new)]))
          [] call = "read feedback" /\ r.op = "PostFeedback" ->
               Await(r, Spread(doc, [feedback |-> Append(content, doc.new)]))
  /\ UNCHANGED <<mongoVars, fileVars, nextOid, now>>

\* readData resolves with the parsed content of the file.
FileRead == FileReadStep(TRUE)

\* The file cannot be read or its content is not JSON: readData resolves
\* with [].
FileReadFails == FileReadStep(FALSE)

\* The awaited writeData resolves and the handler answers.
FileWrite ==
  /\ request.stage = "pending"
  /\ LET r == request
         call == FileCalls(r.op)[r.pc]
     IN CASE call = "write resources" ->
               /\ resourcesFile' = r.doc.resources
               /\ Answer(r, 201, r.doc.new)
               /\ UNCHANGED <<ratingsFile, feedbackFile>>
          [] call = "write ratings" ->
               /\ ratingsFile' = r.doc.ratings
               /\ Answer(r, 201, buildEnrichedResourceFile(r.doc.resource, r.doc.ratings,
                                                           r.doc.feedback))
               /\ UNCHANGED <<resourcesFile, feedbackFile>>
          [] call = "write feedback" ->
               /\ feedbackFile' = r.doc.feedback
               /\ Answer(r, 201, buildEnrichedResourceFile(r.doc.resource, r.doc.ratings,
                                                           r.doc.feedback))
               /\ UNCHANGED <<resourcesFile, ratingsFile>>
          [] OTHER -> FALSE
  /\ UNCHANGED <<mongoVars, nextOid, now>>

\* One request at a time; a read may fail.
NextFileFault ==
  \/ Deliver
  \/ \E q \in FileCreateRequests : FileReceive(q[1], q[2], q[3])
  \/ FileRead
  \/ FileReadFails
  \/ FileWrite

SpecFileFault == Init /\ [][NextFileFault]_vars

\* Two requests in flight; every read succeeds.
NextFileRace ==
  \/ Deliver
  \/ \E q \in FileCreateRequests : FileReceive(q[1], q[2], q[3])
  \/ FileRead
  \/ FileWrite
  \/ Switch

SpecFileRace == Init /\ [][NextFileRace]_vars

\* ------------------------------ create and update of resources (part_003)
\* Partial updates that name title or type.
BlankingBodies ==
  { [title |-> <<" ">>], [type |-> <<>>] }

NextEdit ==
  \/ Tick
  \/ Deliver
  \/ \E body \in ResourceBodies : PostResource(body)
  \/ \E id \in PathIds, body \in UpdateBodies \cup BlankingBodies : PutResource(id, body)

SpecEdit == Init /\ [][NextEdit]_vars

\* ------------------- create and update of resources (routes/resources.js)
\* Bodies with and without an id field of their own.
IdCreateBodies ==
  { [title |-> <<"b">>, type |-> <<"v">>],
    [title |-> <<"b">>, type |-> <<"v">>, id |-> UuidOf[1]] }

IdUpdateBodies ==
  { [description |-> <<"n">>], [id |-> UuidOf[2]] }

NextFileIds ==
  \/ Tick
  \/ Deliver
  \/ \E body \in IdCreateBodies : FilePostResource(body)
  \/ \E id \in FilePathIds, body \in IdUpdateBodies : FilePutResource(id, body)

SpecFileIds == Init /\ [][NextFileIds]_vars

\* ------------------------------------------- start-up (app.js, connectDB)
\* const retries = 10 with one attempt more.
retriesPlusOne == 10 + 1

\* const retries = 10
retries == 10

\* The process has been started and runs the top-level code of app.js.
Starting ==
  [pc |-> "start", i |-> 0, attempts |-> 0, connected |-> FALSE,
   exitCode |-> 0, by |-> "none"]

InitBoot ==
  /\ resources = {}
  /\ ratings = {}
  /\ feedback = {}
  /\ resourcesFile = <<>>
  /\ ratingsFile = <<>>
  /\ feedbackFile = <<>>
  /\ nextOid = 1
  /\ now = 0
  /\ last = Idle
  /\ request = NoRequest
  /\ parked = NoRequest
  /\ boot = Starting

\* The loop test i <= retries and what follows it: the next
\* mongoose.connect call, or process.exit(1) after the loop.
LoopTest(b, i) ==
  IF i <= retries
    THEN [b EXCEPT !.pc = "connecting", !.i = i, !.attempts = @ + 1]
    ELSE [b EXCEPT !.pc = "exited", !.i = i, !.exitCode = 1, !.by = "connectDB"]

\* app.js up to its first await: without MONGO_URI the process exits,
\* otherwise connectDB is called and makes its first attempt.
Start(uriSet) ==
  /\ boot.pc = "start"
  /\ boot' = IF ~uriSet
               THEN [boot EXCEPT !.pc = "exited", !.exitCode = 1, !.by = "app"]
               ELSE LoopTest(boot, 1)
  /\ UNCHANGED <<mongoVars, fileVars, nextOid, now, last, request, parked>>

\* await mongoose.connect resolves: connectDB returns and app.js runs on to
\* app.listen.
ConnectResolves ==
  /\ boot.pc = "connecting"
  /\ boot' = [boot EXCEPT !.pc = "listening", !.connected = TRUE]
  /\ UNCHANGED <<mongoVars, fileVars, nextOid, now, last, request, parked>>

\* await mongoose.connect rejects: the catch block logs and waits delayMs.
ConnectRejects ==
  /\ boot.pc = "connecting"
  /\ boot' = [boot EXCEPT !.pc = "waiting"]
  /\ UNCHANGED <<mongoVars, fileVars, nextOid, now, last, request, parked>>

\* The timer of the catch block fires: i++ and the loop test.
TimerFires ==
  /\ boot.pc = "waiting"
  /\ boot' = LoopTest(boot, boot.i + 1)
  /\ UNCHANGED <<mongoVars, fileVars, nextOid, now, last, request, parked>>

NextBoot ==
  \/ \E uriSet \in BOOLEAN : Start(uriSet)
  \/ ConnectResolves
  \/ ConnectRejects
  \/ TimerFires
  \/ Deliver
  \/ \E query \in Queries : GetResources(query)
  \/ \E body \in ResourceBodies : PostResource(body)

\* Every awaited promise of the start-up code settles: mongoose.connect
\* resolves or rejects (server selection times out), the timer fires.
SpecBoot ==
  /\ InitBoot
  /\ [][NextBoot]_vars
  /\ WF_vars(\E uriSet \in BOOLEAN : Start(uriSet))
  /\ WF_vars(ConnectResolves \/ ConnectRejects)
  /\ WF_vars(TimerFires)

\* ================================================================ claims
\* Operations answered with the detail view, and their success statuses.
DetailOps == {"GetResource", "PutResource", "PostRating", "PostFeedback"}
IsDetailResponse == last.op \in DetailOps /\ last.status \in {200, 201}

RECURSIVE SumOfValues(_)
SumOfValues(docs) ==
  IF docs = {} THEN 0
  ELSE LET d == CHOOSE x \in docs : TRUE
       IN d.ratingValue + SumOfValues(docs \ {d})

RatingsOf(oid) == {r \in ratings : r.resourceId = oid}

\* The arithmetic mean of the stored rating values of a resource (0 if none).
MeanRating(oid) ==
  IF RatingsOf(oid) = {} THEN Zero
  ELSE Num(SumOfValues(RatingsOf(oid)), Cardinality(RatingsOf(oid)))

\* C1: the averageRating of every detail-view answer equals the arithmetic
\* mean of ratingValue over exactly the ratings stored for that resource.
C1_DetailAverageIsMean ==
  IsDetailResponse =>
    NumEq(last.out.averageRating, MeanRating(toObjectId(last.out.id)))

\* C2: a resource without ratings has averageRating exactly 0 (a number) in
\* the list view and in the detail view.
C2_ZeroWithoutRatings ==
  /\ last.op = "GetResources" =>
       \A e \in last.out :
         RatingsOf(toObjectId(e.id)) = {} =>
           IsNumber(e.averageRating) /\ e.averageRating.n = 0
  /\ IsDetailResponse =>
       (RatingsOf(toObjectId(last.out.id)) = {} =>
          IsNumber(last.out.averageRating) /\ last.out.averageRating.n = 0)

\* C2 witness: the list view shows the only stored resource, unrated, created
\* after the records before it were deleted.
C2_Witness ==
  /\ last.op = "GetResources"
  /\ ratings = {}
  /\ \E e \in last.out : toObjectId(e.id) = 3 /\ e.averageRating = Zero
  /\ Cardinality(resources) = 1

\* C3: in every state the list view and the detail view report the same
\* averageRating for every resource.
C3_ListEqualsDetail ==
  \A r \in resources :
    NumEq(enrichSummary(r, ratings).averageRating,
          buildEnrichedResource(r, ratings, feedback).averageRating)

\* The records of the six collections that refer to the resource with wire
\* id `id`.
RecordsOf(id, rs, rt, fb, rsF, rtF, fbF) ==
  LET ThisResource(x) == x.id = id
      OfThis(x) == x.resourceId = id
  IN << {r \in rs : HexOf[r._id] = id},
        {r \in rt : HexOf[r.resourceId] = id},
        {f \in fb : HexOf[f.resourceId] = id},
        SelectSeq(rsF, ThisResource),
        SelectSeq(rtF, OfThis),
        SelectSeq(fbF, OfThis) >>

\* The records of the six collections that belong to other resources.
RecordsOfOthers(id, rs, rt, fb, rsF, rtF, fbF) ==
  LET OtherResource(x) == x.id # id
      OfOther(x) == x.resourceId # id
  IN << {r \in rs : HexOf[r._id] # id},
        {r \in rt : HexOf[r.resourceId] # id},
        {f \in fb : HexOf[f.resourceId] # id},
        SelectSeq(rsF, OtherResource),
        SelectSeq(rtF, OfOther),
        SelectSeq(fbF, OfOther) >>

NoRecords == << {}, {}, {}, << >>, << >>, << >> >>

\* C4: a successful delete of resource R leaves no record of any collection
\* that refers to R, and leaves the records of other resources untouched.
C4_CascadeDelete ==
  [][ (last'.op = "DeleteResource" /\ last'.status = 204) =>
        /\ RecordsOf(last'.id, resources', ratings', feedback',
                     resourcesFile', ratingsFile', feedbackFile') = NoRecords
        /\ RecordsOfOthers(last'.id, resources', ratings', feedback',
                           resourcesFile', ratingsFile', feedbackFile')
             = RecordsOfOthers(last'.id, resources, ratings, feedback,
                               resourcesFile, ratingsFile, feedbackFile) ]_vars

\* The request of a step is for a resource id that identifies no stored
\* resource (evaluated before the step).
Nonexistent(id) == \A r \in resources : HexOf[r._id] # id

BodyPasses(op, body) ==
  IF op = "PostRating" THEN validateRating(body) ELSE validateFeedback(body)

\* C5: a create-rating / create-feedback request (with a body that passes
\* validation) whose resource id identifies no stored resource is answered
\* with not-found and inserts nothing.
C5_CreateForMissingResource ==
  [][ (/\ last'.op \in {"PostRating", "PostFeedback"}
       /\ Nonexistent(last'.id)
       /\ BodyPasses(last'.op, last'.body)) =>
        /\ last'.status = 404
        /\ ratings' = ratings
        /\ feedback' = feedback ]_vars

\* A rating value as the claim wants it: a number in the closed range [1,5].
InRange(body) ==
  /\ Has(body, "ratingValue")
  /\ body.ratingValue.kind = "number"
  /\ body.ratingValue.n >= body.ratingValue.d
  /\ body.ratingValue.n <= 5 * body.ratingValue.d

\* C6: a create-rating request whose ratingValue is non-numeric or outside
\* [1,5] is answered with the validation error and inserts nothing, and every
\* stored rating has a ratingValue in [1,5].
C6_RatingRange ==
  /\ [](\A r \in ratings : r.ratingValue >= 1 /\ r.ratingValue <= 5)
  /\ [][ (last'.op = "PostRating" /\ ~InRange(last'.body)) =>
           /\ last'.status = 400
           /\ ratings' = ratings ]_vars

\* C6 witness: a rating of 6 for a stored resource was answered 400.
C6_Witness ==
  /\ last.op = "PostRating"
  /\ last.status = 400
  /\ last.body.ratingValue.kind = "number"
  /\ last.body.ratingValue.n = 6
  /\ ~Nonexistent(last.id)

\* The feedback f exists and is stored under another resource than `id`.
BelongsElsewhere(id, fid) ==
  \E f \in feedback : HexOf[f._id] = fid /\ HexOf[f.resourceId] # id

NoSuchPair(id, fid) ==
  \A f \in feedback : ~(HexOf[f._id] = fid /\ HexOf[f.resourceId] = id)

\* C8: a delete-feedback request whose pair matches no stored feedback is
\* answered not-found, never no-content, and removes nothing.
C8_DeleteUnmatchedFeedback ==
  [][ (last'.op = "DeleteFeedback" /\ ObjectIdIsValid(last'.id)
         /\ ObjectIdIsValid(last'.fid) /\ NoSuchPair(last'.id, last'.fid)) =>
        /\ last'.status = 404
        /\ feedback' = feedback ]_vars

\* What a client sees of a stored feedback document.
ClientFeedback(f) == Spread([id |-> HexOf[f._id]], Rest(f, {"_id"}))

FeedbackStoredFor(id) ==
  {ClientFeedback(f) : f \in {g \in feedback : HexOf[g.resourceId] = id}}

\* C9: the feedback array of a detail view holds exactly the feedback
\* currently stored for that resource.
C9_DetailFeedbackIsCurrent ==
  /\ IsDetailResponse => last.out.feedback = FeedbackStoredFor(last.out.id)
  /\ \A r \in resources :
       buildEnrichedResource(r, ratings, feedback).feedback
         = FeedbackStoredFor(HexOf[r._id])

\* C9 witness: the detail view of a resource without feedback is answered
\* with an empty array while feedback of another resource is stored.
C9_Witness ==
  /\ last.op = "GetResource"
  /\ last.status = 200
  /\ last.out.feedback = {}
  /\ feedback # {}

C11_DeleteNotRepeatable ==
  [][ /\ (last'.op = "DeleteResource" /\ Nonexistent(last'.id)) =>
           /\ last'.status = 404
           /\ UNCHANGED <<mongoVars, fileVars>>
      /\ (last'.op = "DeleteResource" /\ last'.status = 204) =>
           /\ ~Nonexistent(last'.id)
           /\ \A r \in resources' : HexOf[r._id] # last'.id ]_vars

\* The keys the detail view computes itself.
DerivedKeys == {"averageRating", "feedback"}

\* C12: after a successful create with body B, a get of the returned id
\* succeeds and returns every field of B with its submitted value, together
\* with the assigned id and createdAt (the keys the view derives aside).
C12_RoundTrip ==
  (last.op = "PostResource" /\ last.status = 201) =>
    LET found == FindById(resources, toObjectId(last.out.id))
    IN /\ found # {}
       /\ LET got == buildEnrichedResource(CHOOSE r \in found : TRUE,
                                           ratings, feedback)
          IN /\ \A k \in DOMAIN last.body \ DerivedKeys :
                  Has(got, k) /\ got[k] = last.body[k]
             /\ Has(got, "id")
             /\ Has(got, "createdAt")

\* C13: a successful update of resource R with field set P leaves every
\* stored field of R that P does not name (updatedAt aside) at its value.
C13_PartialUpdateKeepsFields ==
  [][ (last'.op = "PutResource" /\ last'.status = 200) =>
        \A old \in resources :
          HexOf[old._id] = last'.id =>
            \E new \in resources' :
              /\ new._id = old._id
              /\ \A k \in DOMAIN old \ (DOMAIN last'.body \cup {"updatedAt"}) :
                   Has(new, k) /\ new[k] = old[k] ]_vars

\* C13 witness: an update naming description was answered 200 for a resource
\* that still has its title, type, authorId and createdAt.
C13_Witness ==
  /\ last.op = "PutResource"
  /\ last.status = 200
  /\ Has(last.body, "description")
  /\ \E r \in resources :
       /\ HexOf[r._id] = last.id
       /\ r.description = last.body.description
       /\ r.title = <<"b">> /\ r.type = <<"v">> /\ r.authorId = "u1"
       /\ Has(r, "createdAt")

\* C14: every successful update of a resource sets updatedAt strictly later
\* than the resource's previous updatedAt, also when the clock has not
\* advanced since the previous update.
C14_UpdatedAtStrictlyLater ==
  [][ (last'.op = "PutResource" /\ last'.status = 200) =>
        \A old \in resources :
          (HexOf[old._id] = last'.id /\ Has(old, "updatedAt")) =>
            \A new \in resources' :
              new._id = old._id => new.updatedAt > old.updatedAt ]_vars

\* The resource passes the filters the query supplies.
MatchesQuery(r, query) ==
  /\ Has(query, "type") => (Has(r, "type") /\ r.type = query.type)
  /\ Has(query, "authorId") => (Has(r, "authorId") /\ r.authorId = query.authorId)

\* C15: a list request with a type and/or authorId filter returns exactly
\* the stored resources whose type (authorId) equals the supplied value.
C15_ListFilter ==
  last.op = "GetResources" =>
    {e.id : e \in last.out}
      = {HexOf[r._id] : r \in {x \in resources : MatchesQuery(x, last.body)}}

\* The text field k of the body is missing, empty or blank.
Blank(body, k) ==
  ~Has(body, k) \/ \A i \in 1..Len(body[k]) : IsSpace(body[k][i])

\* The request fails validation as the interface defines it.
FailsValidation(op, body) ==
  \/ op = "PostResource" /\ (Blank(body, "title") \/ Blank(body, "type"))
  \/ op \in {"PostFeedback", "PutFeedback"} /\ Blank(body, "feedbackText")
  \/ op = "PutResource" /\ DOMAIN body = {}

\* C16: a request that fails validation is answered with the client
\* validation error and leaves the three collections unchanged.
C16_ValidationFirst ==
  [][ FailsValidation(last'.op, last'.body) =>
        /\ last'.status = 400
        /\ UNCHANGED mongoVars ]_vars

\* C17: a get, update or delete of a resource whose id is not stored, a
\* malformed id included, is answered with not-found or with a validation
\* error, never with the server error of the top-level handler.
C17_MissingIdIsClientError ==
  [][ (last'.op \in {"GetResource", "PutResource", "DeleteResource"}
         /\ Nonexistent(last'.id)) =>
        last'.status \in {400, 404} ]_vars

\* C18: the body of a server-error response does not depend on the error
\* text of the failed store call: no such text reaches the client.
C18_NoErrorTextInResponse ==
  last.status = 500 =>
    \A k \in DOMAIN last.out : last.out[k] \notin ErrorTexts

\* C19: every request gets exactly one response, whether its store calls
\* resolve or reject: never more than one is sent, a finished handler has
\* sent one, and every waiting handler finishes.
C19_ExactlyOneResponse ==
  /\ [](request.sent <= 1)
  /\ [](request.stage = "done" =>
          request.sent = 1 /\ last.op = request.op /\ last.status # 0)
  /\ (request.stage = "pending" ~> request.stage = "done")

\* C19 witness: the delete handler's deleteMany rejected and the request was
\* answered once, by errorHandler.
C19_Witness ==
  /\ request.stage = "done"
  /\ request.op = "DeleteResource"
  /\ request.pc = Len(Calls(request.op))
  /\ request.sent = 1
  /\ last.status = 500

\* C20: once the delete handler has removed the resource, the request is
\* answered with no-content and the resource stays deleted, also when the
\* removal of its ratings and feedback fails.
C20_DeleteReportsSuccess ==
  [][ (/\ request.stage = "pending"
       /\ request.op = "DeleteResource"
       /\ Calls(request.op)[request.pc] = "deleteMany"
       /\ request'.stage = "done") =>
        /\ last'.status = 204
        /\ \A d \in resources' : HexOf[d._id] # request.id ]_vars

\* ------------------------------------------------------------- C21
\* The records a successful response hands to the client: the elements of a
\* list, or the answered record together with its feedback entries.
ReturnedRecords ==
  IF last.status \notin {200, 201} THEN {}
  ELSE IF last.op = "GetResources" THEN last.out
  ELSE {last.out} \cup (IF Has(last.out, "feedback") THEN last.out.feedback ELSE {})

\* C21: every record returned to a client, the feedback record answered by
\* update-feedback included, carries its identity under the key id and has
\* neither the store's key _id nor the version key.
C21_ClientRecordsUseId ==
  \A rec \in ReturnedRecords :
    Has(rec, "id") /\ ~Has(rec, "_id") /\ ~Has(rec, "__v")

\* ------------------------------------------------------------- C22
\* The step is the successful deletion of the resource with this wire id.
DeletesResource(id) ==
  /\ last'.op = "DeleteResource"
  /\ last'.status = 204
  /\ last'.id = id

\* C22: ratings are append-only: every stored rating is still stored, with
\* all its fields, after every step other than the deletion of its resource;
\* update-resource, create-rating and the feedback operations leave the
\* existing ratings alone.
C22_RatingsAppendOnly ==
  [][ /\ \A r \in ratings : r \in ratings' \/ DeletesResource(HexOf[r.resourceId])
      /\ \A i \in 1..Len(ratingsFile) :
           \/ i <= Len(ratingsFile') /\ ratingsFile'[i] = ratingsFile[i]
           \/ DeletesResource(ratingsFile[i].resourceId) ]_vars

\* C22 witness: a second rating of the same resource and user has been
\* created and the first one is still stored.
C22_Witness ==
  /\ last.op = "PostRating"
  /\ last.status = 201
  /\ \E r1, r2 \in ratings :
       r1._id # r2._id /\ r1.resourceId = r2.resourceId /\ r1.userId = r2.userId

\* ------------------------------------------------------------- C23
\* Ratings and feedback whose resource is not stored.
Orphans(rs, rt, fb) ==
  {x \in rt \cup fb : \A d \in rs : d._id # x.resourceId}

\* C23: while a create-rating or create-feedback request runs concurrently
\* with a delete-resource request for the same resource, no rating or
\* feedback is inserted while its resource is absent, and once both requests
\* have been answered no rating or feedback refers to a deleted resource.
C23_NoOrphanUnderConcurrentDelete ==
  /\ [][ \A x \in (ratings' \ ratings) \cup (feedback' \ feedback) :
           \E d \in resources : d._id = x.resourceId ]_vars
  /\ []( (request.stage # "pending" /\ parked = NoRequest) =>
           Orphans(resources, ratings, feedback) = {} )

\* ------------------------------------------------------------- C24
\* C24: the enriched resource answered by a successful write reflects that
\* write: the create-feedback answer lists the new feedback, the
\* create-rating answer's averageRating is the mean over the ratings with
\* the new one, and the update-resource answer carries the updated field
\* values together with averageRating and feedback.
C24_WriteAnswerReflectsWrite ==
  /\ (last.op = "PostFeedback" /\ last.status = 201) =>
       /\ \E f \in last.out.feedback : f.feedbackText = Trim(last.body.feedbackText)
       /\ last.out.feedback = FeedbackStoredFor(last.id)
  /\ (last.op = "PostRating" /\ last.status = 201) =>
       /\ RatingsOf(toObjectId(last.id)) # {}
       /\ NumEq(last.out.averageRating, MeanRating(toObjectId(last.id)))
  /\ (last.op = "PutResource" /\ last.status = 200) =>
       /\ \A k \in DOMAIN last.body \ DerivedKeys : Has(last.out, k) /\ last.out[k] = last.body[k]
       /\ Has(last.out, "averageRating") /\ Has(last.out, "feedback")

\* ------------------------------------------------------------- C25
\* C25: every stored resource has a title and a type that are present and
\* are not empty or whitespace-only, whatever create-resource and
\* update-resource requests have been served.
C25_StoredTitleAndType ==
  \A r \in resources : ~Blank(r, "title") /\ ~Blank(r, "type")

\* ------------------------------------------------------------- C26
\* C26: the feedbackText of every stored feedback is non-empty and has no
\* leading or trailing whitespace, whether create-feedback or update-feedback
\* wrote it; update-feedback changes only feedbackText and timestamp of the
\* matched record.
C26_StoredFeedbackTrimmed ==
  /\ [](\A f \in feedback :
          f.feedbackText # <<>> /\ Trim(f.feedbackText) = f.feedbackText)
  /\ [][ (last'.op = "PutFeedback" /\ last'.status = 200) =>
           /\ resources' = resources /\ ratings' = ratings
           /\ {f._id : f \in feedback'} = {f._id : f \in feedback}
           /\ \A f \in feedback : \A g \in feedback' :
                g._id = f._id =>
                  /\ DOMAIN g = DOMAIN f
                  /\ \A k \in DOMAIN f \ {"feedbackText", "timestamp"} : g[k] = f[k]
                  /\ HexOf[f._id] # last'.fid => g = f ]_vars

\* ------------------------------------------------------------- C27
\* The records of a stored list.
Records(file) == {file[i] : i \in 1..Len(file)}

\* A readData call of the request has failed.
ReadHasFailed(r) == Has(r.doc, "failed") /\ r.doc.failed

\* C27: a request one of whose reads found the collection unreadable or
\* malformed is answered with a server error, and no step of its handler
\* replaces stored data: a create never overwrites the collection with a
\* list that holds only the new record.
C27_UnreadableStoreIsServerError ==
  /\ []( (request.stage = "done" /\ ReadHasFailed(request)) => last.status = 500 )
  /\ [][ ReadHasFailed(request) =>
           /\ Records(resourcesFile) \subseteq Records(resourcesFile')
           /\ Records(ratingsFile) \subseteq Records(ratingsFile')
           /\ Records(feedbackFile) \subseteq Records(feedbackFile') ]_vars

\* ------------------------------------------------------------- C28
\* C28: when two create requests of the file-backed store run concurrently
\* and both answer success, both new records are in the collection
\* afterwards: no step of the interleaved read / append / write sequences
\* removes a record that a create has written and answered.
C28_ConcurrentCreatesKeepBoth ==
  [][ /\ Records(resourcesFile) \subseteq Records(resourcesFile')
      /\ Records(ratingsFile) \subseteq Records(ratingsFile')
      /\ Records(feedbackFile) \subseteq Records(feedbackFile') ]_vars

\* ------------------------------------------------------------- C29
\* C29: in the file-backed store no two stored resources have the same id,
\* and the id of a stored resource never changes, whatever bodies
\* create-resource and update-resource are given, bodies with an id field
\* of their own included.
C29_ResourceIdsUniqueAndStable ==
  /\ [](\A i, j \in 1..Len(resourcesFile) :
          i # j => resourcesFile[i].id # resourcesFile[j].id)
  /\ [][ \A i \in 1..Len(resourcesFile) :
           i <= Len(resourcesFile') => resourcesFile'[i].id = resourcesFile[i].id ]_vars

\* ------------------------------------------------------------- C30
\* C30: connectDB terminates: it makes at most 10 connection attempts,
\* returns after the first successful attempt without attempting again,
\* exits the process with code 1 only after all 10 attempts have failed, and
\* the server listens (and serves requests) only after connectDB has
\* returned successfully.
C30_ConnectTerminates ==
  /\ [](boot.attempts <= 10)
  /\ [][boot.connected => boot'.attempts = boot.attempts /\ boot'.connected]_vars
  /\ [](boot.connected => boot.pc = "listening")
  /\ [](boot.by = "connectDB" =>
          boot.exitCode = 1 /\ boot.attempts = 10 /\ ~boot.connected)
  /\ [](boot.pc = "listening" => boot.connected)
  /\ [](last # Idle => boot.pc = "listening")
  /\ <>(boot.pc \in {"listening", "exited"})

\* C30 witness: nine attempts failed, the tenth succeeded, and the server
\* has answered a request.
C30_Witness ==
  /\ boot.pc = "listening"
  /\ boot.attempts = 10
  /\ last.status = 201

====
